---- MODULE Spec2Model ----
(***************************************************************************)
(* Patricia evaluation for Stockfish: the quantized 768x2 -> L1 -> 1       *)
(* network with incrementally maintained accumulators                      *)
(* (src/nnue/nnue_patricia.{h,cpp}), the lazily initialised global network *)
(* set (src/nnue/patricia_nets_embed.cpp) and the per-search-line          *)
(* evaluation state with phase switching and score modifiers               *)
(* (src/patricia_eval.{h,cpp}).                                            *)
(***************************************************************************)
EXTENDS Integers, Sequences, FiniteSets, TLC

(***************************************************************************)
(* Bounds of the model.                                                    *)
(***************************************************************************)
\* Elements per perspective vector (PATRICIA_LAYER1_SIZE is 768 in the program).
L1Size == 2
\* Slots of PatriciaState::accumulatorStack (one per search ply).
StackCapacity == 2
\* Worker threads that may call get_patricia_networks() concurrently.
NumWorkers == 2

(***************************************************************************)
(* Program constants.                                                      *)
(***************************************************************************)
PATRICIA_SCRELU_MIN == 0
PATRICIA_SCRELU_MAX == 255
PATRICIA_SCALE == 400
PATRICIA_QA == 255
PATRICIA_QB == 64
PATRICIA_QAB == PATRICIA_QA * PATRICIA_QB

\* enum class PatriciaPhase
Middlegame == 0
Endgame == 1
Sacrifice == 2
Phases == {Middlegame, Endgame, Sacrifice}

\* Engine types used by the evaluator (types.h of the engine).
WHITE == 0
BLACK == 1
NO_PIECE == 0
SQ_NONE == 64
VALUE_ZERO == 0
VALUE_DRAW == 0
VALUE_TB_WIN_IN_MAX_PLY == 31507
PAWN == 1
KNIGHT == 2
BISHOP == 3
ROOK == 4
QUEEN == 5
KING == 6

(***************************************************************************)
(* Machine arithmetic.                                                     *)
(***************************************************************************)
\* Faulty variant of TruncDiv: the quotient is rounded toward minus infinity.
FloorDiv(a, b) == a \div b

\* Integer division of C++: the quotient is truncated toward zero (b > 0).
TruncDiv(a, b) == IF a >= 0 THEN a \div b ELSE -((-a) \div b)

\* Narrowing of an int to int16_t, as done by the compound assignments on
\* accumulator elements: the value modulo 2^16 in [-32768, 32767].
ToInt16(x) == ((x + 32768) % 65536) - 32768

Int16Add(a, b) == ToInt16(a + b)
Int16Sub(a, b) == ToInt16(a - b)

\* square ^ 56 for a square in 0..63: bits 3..5 (the rank) are inverted.
Xor56(sq) == 8 * (7 - (sq \div 8)) + (sq % 8)

\* color ^ 1 for a colour in {0, 1}.
Xor1(c) == 1 - c

(***************************************************************************)
(* Pieces of the engine's encoding: 1..6 white, 9..14 black.               *)
(***************************************************************************)
type_of(pc) == pc % 8
color_of(pc) == pc \div 8
make_piece(c, pt) == 8 * c + pt
Pieces == (1..6) \cup (9..14)

(***************************************************************************)
(* Feature indexing (nnue_patricia.cpp).                                   *)
(***************************************************************************)
\* Faulty variant of feature_indices: the piece type is not made 0-based.
feature_indices_one_based(stockfish_piece, square) ==
    LET color_stride == 64 * 6
        piece_stride == 64
        piece_type == stockfish_piece % 8
        color == IF stockfish_piece >= 9 THEN 1 ELSE 0
    IN  [white_idx |-> color * color_stride + piece_type * piece_stride + square,
         black_idx |-> Xor1(color) * color_stride + piece_type * piece_stride
                          + Xor56(square)]

\* Faulty variant of feature_indices: Black's view rotates the board
\* (square ^ 63) instead of flipping its ranks.
feature_indices_rotated(stockfish_piece, square) ==
    LET color_stride == 64 * 6
        piece_stride == 64
        piece_type == (stockfish_piece - 1) % 8
        color == IF stockfish_piece >= 9 THEN 1 ELSE 0
    IN  [white_idx |-> color * color_stride + piece_type * piece_stride + square,
         black_idx |-> Xor1(color) * color_stride + piece_type * piece_stride
                          + (63 - square)]

feature_indices(stockfish_piece, square) ==
    LET color_stride == 64 * 6
        piece_stride == 64
        piece_type == (stockfish_piece - 1) % 8
        color == IF stockfish_piece >= 9 THEN 1 ELSE 0
    IN  [white_idx |-> color * color_stride + piece_type * piece_stride + square,
         black_idx |-> Xor1(color) * color_stride + piece_type * piece_stride
                          + Xor56(square)]

(***************************************************************************)
(* The three embedded parameter records (firefly, rw3, allie), indexed by  *)
(* the phase that selects them.  The values stand for the compiled-in      *)
(* blobs: 16-bit feature weights over the whole int16 range, so that the   *)
(* accumulator sums wrap, a hidden bias, two output-weight segments and an *)
(* output bias.  Beside them stand parameter records as a file or a test   *)
(* may supply them: every weight and the hidden bias zero, the output bias *)
(* one of FixtureBias.                                                     *)
(***************************************************************************)
FixtureBias == <<41, -41, 40, -40, 32767, -32768>>

\* The parameter records with zero weights: record 2 + k has the output bias
\* FixtureBias[k].
ZeroNets == 3 .. (2 + Len(FixtureBias))

feature_weights(net, offset) ==
    IF net \in ZeroNets THEN 0
    ELSE ToInt16(31 * offset * offset + (7919 + 1031 * net) * offset
                 + 4099 * (offset % 5) + 977 * net + 23757)

feature_bias(net, i) ==
    IF net \in ZeroNets THEN 0
    ELSE ToInt16(40 * (net + 1) + 97 * i - 60 * net * i)

output_weights(net, j) ==
    CASE net = Middlegame -> <<-30, 60, 25, -20>>[(j % 4) + 1]
      [] net = Endgame    -> <<20, -5100, 70, -10>>[(j % 4) + 1]
      [] net \in ZeroNets -> 0
      [] OTHER            -> <<2600, -40, 2500, 30>>[(j % 4) + 1]

output_bias(net) ==
    CASE net = Middlegame -> 2000
      [] net = Endgame    -> -1500
      [] net \in ZeroNets -> FixtureBias[net - 2]
      [] OTHER            -> 900

\* PatriciaNetworks::get_network: the switch on the phase with its default.
get_network(phase) ==
    CASE phase = Middlegame -> Middlegame
      [] phase = Endgame    -> Endgame
      [] phase = Sacrifice  -> Sacrifice
      [] OTHER              -> Middlegame

(***************************************************************************)
(* Accumulators (nnue_patricia.h, nnue_patricia.cpp).                      *)
(***************************************************************************)
Lanes == 0 .. (L1Size - 1)

\* PatriciaAccumulator::init through PatriciaNetwork::init_accumulator.
init_accumulator(net) ==
    [white |-> [i \in Lanes |-> feature_bias(net, i)],
     black |-> [i \in Lanes |-> feature_bias(net, i)]]

\* Narrowing that saturates at the ends of the int16_t range.
SatInt16(x) == IF x > 32767 THEN 32767 ELSE IF x < -32768 THEN -32768 ELSE x

\* Faulty variant of update_accumulator: the element arithmetic saturates
\* instead of wrapping.
update_accumulator_saturating(net, acc, is_white_feature, feature_index, add) ==
    LET offset == feature_index * L1Size
        target_acc == IF is_white_feature THEN acc.white ELSE acc.black
        updated == [i \in Lanes |->
                      IF add THEN SatInt16(target_acc[i] + feature_weights(net, offset + i))
                             ELSE SatInt16(target_acc[i] - feature_weights(net, offset + i))]
    IN  IF is_white_feature THEN [acc EXCEPT !.white = updated]
                            ELSE [acc EXCEPT !.black = updated]

\* PatriciaNetwork::update_accumulator.
update_accumulator(net, acc, is_white_feature, feature_index, add) ==
    LET offset == feature_index * L1Size
        target_acc == IF is_white_feature THEN acc.white ELSE acc.black
        updated == [i \in Lanes |->
                      IF add THEN Int16Add(target_acc[i], feature_weights(net, offset + i))
                             ELSE Int16Sub(target_acc[i], feature_weights(net, offset + i))]
    IN  IF is_white_feature THEN [acc EXCEPT !.white = updated]
                            ELSE [acc EXCEPT !.black = updated]

\* screlu: clamp to [0, 255], then square.
screlu(x) ==
    LET clipped == IF x < PATRICIA_SCRELU_MIN THEN PATRICIA_SCRELU_MIN
                   ELSE IF x > PATRICIA_SCRELU_MAX THEN PATRICIA_SCRELU_MAX
                   ELSE x
    IN  clipped * clipped

RECURSIVE SumLanes(_, _)
\* Sum of f[i] over the lanes 0..n-1, in the order of the loops.
SumLanes(f, n) == IF n = 0 THEN 0 ELSE SumLanes(f, n - 1) + f[n - 1]

\* PatriciaNetwork::evaluate.
network_evaluate(net, accumulator, perspective_white) ==
    LET us_acc == IF perspective_white THEN accumulator.white ELSE accumulator.black
        them_acc == IF perspective_white THEN accumulator.black ELSE accumulator.white
        us_terms == [i \in Lanes |-> screlu(us_acc[i]) * output_weights(net, i)]
        them_terms == [i \in Lanes |-> screlu(them_acc[i]) * output_weights(net, L1Size + i)]
        sum == SumLanes(us_terms, L1Size) + SumLanes(them_terms, L1Size)
        output == TruncDiv(sum, PATRICIA_QA)
    IN  TruncDiv((output + output_bias(net)) * PATRICIA_SCALE, PATRICIA_QAB)

\* PatriciaNetworks::evaluate.
networks_evaluate(acc, phase, perspective_white) ==
    network_evaluate(get_network(phase), acc, perspective_white)

(***************************************************************************)
(* Positions, as the evaluator reads them: piece_on, side_to_move, the     *)
(* rule50 counter, and the DirtyPiece a move leaves behind.  The board is  *)
(* played on the squares e1 f1 g1 h1 e7 d8 e8; every other square is       *)
(* empty.                                                                  *)
(***************************************************************************)
Squares == {4, 5, 6, 7, 52, 59, 60}

piece_on(pos, sq) == IF sq \in Squares THEN pos.board[sq] ELSE NO_PIECE

side_to_move(pos) == pos.stm

EmptyBoard == [sq \in Squares |-> NO_PIECE]

\* K e1, R h1, P e7 against N d8, K e8: White is ahead.
RootA(clock) ==
    [board |-> [EmptyBoard EXCEPT ![4] = make_piece(WHITE, KING),
                                  ![7] = make_piece(WHITE, ROOK),
                                  ![52] = make_piece(WHITE, PAWN),
                                  ![59] = make_piece(BLACK, KNIGHT),
                                  ![60] = make_piece(BLACK, KING)],
     stm |-> WHITE, rule50 |-> clock]

\* K e1, N f1 against N d8, K e8, Black to move: material is level.
RootB(clock) ==
    [board |-> [EmptyBoard EXCEPT ![4] = make_piece(WHITE, KING),
                                  ![5] = make_piece(WHITE, KNIGHT),
                                  ![59] = make_piece(BLACK, KNIGHT),
                                  ![60] = make_piece(BLACK, KING)],
     stm |-> BLACK, rule50 |-> clock]

RootPositions == {RootA(199), RootA(200), RootB(200)}

NoDirty == [pc |-> NO_PIECE, from |-> SQ_NONE, to |-> SQ_NONE,
            remove_pc |-> NO_PIECE, remove_sq |-> SQ_NONE,
            add_pc |-> NO_PIECE, add_sq |-> SQ_NONE]

\* The last rank of a pawn of colour c.
PromotionRank(c) == IF c = WHITE THEN 7 ELSE 0

\* The DirtyPiece of moving the piece on from to the square to: a quiet move,
\* a capture (remove_sq = to), or a promotion (to = SQ_NONE, the queen is
\* added on the destination), possibly capturing.
StepDirty(pos, from, to) ==
    LET pc == pos.board[from]
        victim == pos.board[to]
        promo == type_of(pc) = PAWN /\ to \div 8 = PromotionRank(color_of(pc))
    IN  [pc |-> pc, from |-> from,
         to |-> IF promo THEN SQ_NONE ELSE to,
         remove_pc |-> victim,
         remove_sq |-> IF victim = NO_PIECE THEN SQ_NONE ELSE to,
         add_pc |-> IF promo THEN make_piece(color_of(pc), QUEEN) ELSE NO_PIECE,
         add_sq |-> IF promo THEN to ELSE SQ_NONE]

\* White castling short: the king goes e1-g1, the rook is removed from h1 and
\* added on f1.
CastleDirty ==
    [pc |-> make_piece(WHITE, KING), from |-> 4, to |-> 6,
     remove_pc |-> make_piece(WHITE, ROOK), remove_sq |-> 7,
     add_pc |-> make_piece(WHITE, ROOK), add_sq |-> 5]

\* The steps a piece may take: Rh1-f1, e7xd8=Q, Nf1-d8, Nd8-e7, Nd8-f1.
Steps == {<<7, 5>>, <<52, 59>>, <<5, 59>>, <<59, 52>>, <<59, 5>>}

\* The moves offered to the search in pos, as DirtyPieces.
Moves(pos) ==
    { StepDirty(pos, ft[1], ft[2]) : ft \in
        { ft \in Steps :
            /\ pos.board[ft[1]] # NO_PIECE
            /\ color_of(pos.board[ft[1]]) = pos.stm
            /\ \/ pos.board[ft[2]] = NO_PIECE
               \/ /\ color_of(pos.board[ft[2]]) # pos.stm
                  /\ type_of(pos.board[ft[2]]) # KING } }
    \cup
    IF /\ pos.stm = WHITE
       /\ pos.board[4] = make_piece(WHITE, KING)
       /\ pos.board[7] = make_piece(WHITE, ROOK)
       /\ pos.board[5] = NO_PIECE
       /\ pos.board[6] = NO_PIECE
    THEN {CastleDirty} ELSE {}

\* The position after the move described by dp.
do_move(pos, dp) ==
    LET b1 == [pos.board EXCEPT ![dp.from] = NO_PIECE]
        b2 == IF dp.remove_sq # SQ_NONE THEN [b1 EXCEPT ![dp.remove_sq] = NO_PIECE] ELSE b1
        b3 == IF dp.to # SQ_NONE THEN [b2 EXCEPT ![dp.to] = dp.pc] ELSE b2
        b4 == IF dp.add_sq # SQ_NONE THEN [b3 EXCEPT ![dp.add_sq] = dp.add_pc] ELSE b3
        captured == dp.remove_sq # SQ_NONE /\ color_of(dp.remove_pc) # color_of(dp.pc)
    IN  [board |-> b4,
         stm |-> Xor1(pos.stm),
         rule50 |-> IF captured \/ type_of(dp.pc) = PAWN THEN 0 ELSE pos.rule50 + 1]

(***************************************************************************)
(* Material (patricia_eval.cpp).                                           *)
(***************************************************************************)
PieceValues(pt) ==
    CASE pt = PAWN   -> 100
      [] pt = KNIGHT -> 320
      [] pt = BISHOP -> 330
      [] pt = ROOK   -> 500
      [] pt = QUEEN  -> 900
      [] OTHER       -> 0

\* popcount(pos.pieces(c, pt)).
CountPieces(pos, c, pt) ==
    Cardinality({sq \in Squares : pos.board[sq] = make_piece(c, pt)})

RECURSIVE MaterialOf(_, _, _)
\* The loop for (pt = PAWN; pt <= QUEEN; ++pt) over the pieces of colour c.
MaterialOf(pos, c, pt) ==
    IF pt > QUEEN THEN 0
    ELSE CountPieces(pos, c, pt) * PieceValues(pt) + MaterialOf(pos, c, pt + 1)

get_material_count(pos) == MaterialOf(pos, WHITE, PAWN) + MaterialOf(pos, BLACK, PAWN)

get_material_diff(pos) ==
    LET us == side_to_move(pos)
        them == Xor1(us)
    IN  MaterialOf(pos, us, PAWN) - MaterialOf(pos, them, PAWN)

(***************************************************************************)
(* Full rebuild (nnue_patricia.cpp).                                       *)
(***************************************************************************)
RECURSIVE RefreshFrom(_, _, _, _)
\* The loop for (sq = 0; sq < 64; ++sq) of refresh_accumulator, from square sq on.
RefreshFrom(acc, pos, net, sq) ==
    IF sq >= 64 THEN acc
    ELSE LET piece == piece_on(pos, sq)
         IN  IF piece = NO_PIECE THEN RefreshFrom(acc, pos, net, sq + 1)
             ELSE LET idx == feature_indices(piece, sq)
                      white_offset == idx.white_idx * L1Size
                      black_offset == idx.black_idx * L1Size
                      next == [white |-> [i \in Lanes |->
                                  Int16Add(acc.white[i], feature_weights(net, white_offset + i))],
                               black |-> [i \in Lanes |->
                                  Int16Add(acc.black[i], feature_weights(net, black_offset + i))]]
                  IN  RefreshFrom(next, pos, net, sq + 1)

refresh_accumulator(pos, net) == RefreshFrom(init_accumulator(net), pos, net, 0)

(***************************************************************************)
(* PatriciaState and its operations (patricia_eval.cpp).  current is the   *)
(* index of the slot state.current points to; -1 stands for the pointer    *)
(* before init_patricia_state has set it.                                  *)
(***************************************************************************)
Slots == 0 .. (StackCapacity - 1)

\* A default-constructed PatriciaState; the slots hold no computed value yet.
NewState ==
    [phase |-> Middlegame,
     last_phase_check_depth |-> 0,
     starting_material_diff |-> 0,
     history_length |-> 0,
     accumulatorStack |-> [k \in Slots |-> [white |-> [i \in Lanes |-> 0],
                                            black |-> [i \in Lanes |-> 0]]],
     current |-> -1]

\* Faulty variant of init_patricia_state: the depth of the last phase check
\* is not reset.
init_keeps_check_depth(state, pos) ==
    [state EXCEPT !.phase = Middlegame,
                  !.starting_material_diff = get_material_diff(pos),
                  !.history_length = 0,
                  !.current = 0,
                  !.accumulatorStack[0] = refresh_accumulator(pos, get_network(Middlegame))]

init_patricia_state(state, pos) ==
    LET phase == Middlegame
        network == get_network(phase)
    IN  [state EXCEPT !.phase = phase,
                      !.last_phase_check_depth = 0,
                      !.starting_material_diff = get_material_diff(pos),
                      !.history_length = 0,
                      !.current = 0,
                      !.accumulatorStack[0] = refresh_accumulator(pos, network)]

\* apply_feature_update: both perspectives of one (piece, square) feature.
apply_feature_update(acc, network, piece, square, add) ==
    LET idx == feature_indices(piece, square)
        w == update_accumulator(network, acc, TRUE, idx.white_idx, add)
    IN  update_accumulator(network, w, FALSE, idx.black_idx, add)

\* The four conditional updates of push_patricia_accumulator on the new top.
\* The four updates of push_patricia_accumulator for dp, in the order of
\* the code: each is made when its square is not SQ_NONE.
dirty_updates(dp) ==
    <<[on |-> dp.from # SQ_NONE, piece |-> dp.pc, square |-> dp.from, add |-> FALSE],
      [on |-> dp.to # SQ_NONE, piece |-> dp.pc, square |-> dp.to, add |-> TRUE],
      [on |-> dp.remove_sq # SQ_NONE, piece |-> dp.remove_pc,
       square |-> dp.remove_sq, add |-> FALSE],
      [on |-> dp.add_sq # SQ_NONE, piece |-> dp.add_pc,
       square |-> dp.add_sq, add |-> TRUE]>>

\* The first n updates of order (a sequence of positions of dirty_updates)
\* applied to acc one after the other.
RECURSIVE ApplyInOrder(_, _, _, _, _)
ApplyInOrder(acc, network, updates, order, n) ==
    IF n = 0 THEN acc
    ELSE LET before == ApplyInOrder(acc, network, updates, order, n - 1)
             u == updates[order[n]]
         IN  IF u.on
             THEN apply_feature_update(before, network, u.piece, u.square, u.add)
             ELSE before

apply_dirty(acc, network, dp) ==
    LET a1 == IF dp.from # SQ_NONE
              THEN apply_feature_update(acc, network, dp.pc, dp.from, FALSE) ELSE acc
        a2 == IF dp.to # SQ_NONE
              THEN apply_feature_update(a1, network, dp.pc, dp.to, TRUE) ELSE a1
        a3 == IF dp.remove_sq # SQ_NONE
              THEN apply_feature_update(a2, network, dp.remove_pc, dp.remove_sq, FALSE) ELSE a2
        a4 == IF dp.add_sq # SQ_NONE
              THEN apply_feature_update(a3, network, dp.add_pc, dp.add_sq, TRUE) ELSE a3
    IN  a4

\* Faulty variant of push_patricia_accumulator: the updates are applied
\* before the cursor is advanced, to the parent's slot.
push_updates_parent(state, dp) ==
    LET network == get_network(state.phase)
        child == state.current + 1
        copied == state.accumulatorStack[state.current]
    IN  [state EXCEPT !.accumulatorStack[child] = copied,
                      !.accumulatorStack[state.current] = apply_dirty(copied, network, dp),
                      !.current = child]

\* push_patricia_accumulator while state.current + 1 is a slot of the stack.
push_patricia_accumulator(state, dp) ==
    LET network == get_network(state.phase)
        child == state.current + 1
        copied == state.accumulatorStack[state.current]
    IN  [state EXCEPT !.accumulatorStack[child] = apply_dirty(copied, network, dp),
                      !.current = child]

pop_patricia_accumulator(state) == [state EXCEPT !.current = state.current - 1]

\* Faulty variant of detect_phase: the depth threshold is off by one.
detect_phase_above_six(eval, depth) ==
    IF depth > 6
    THEN IF eval < VALUE_DRAW - 100 THEN Endgame
         ELSE IF eval > VALUE_DRAW + 300 THEN Sacrifice
         ELSE Middlegame
    ELSE Middlegame

detect_phase(eval, depth) ==
    IF depth >= 6
    THEN IF eval < VALUE_DRAW - 100 THEN Endgame
         ELSE IF eval > VALUE_DRAW + 300 THEN Sacrifice
         ELSE Middlegame
    ELSE Middlegame

is_win(v) == v >= VALUE_TB_WIN_IN_MAX_PLY
is_loss(v) == v <= -VALUE_TB_WIN_IN_MAX_PLY

(***************************************************************************)
(* Modifiers (patricia_eval.cpp, namespace Modifiers).                     *)
(***************************************************************************)
draw_contempt(pos, base_score) ==
    LET material_diff == get_material_diff(pos)
        contempt == IF material_diff < 0 THEN VALUE_DRAW + 50
                    ELSE IF material_diff > 0 THEN VALUE_DRAW - 50
                    ELSE VALUE_DRAW
    IN  base_score + contempt

\* Faulty variant of sacrifice_bonus: the parity test is inverted.
sacrifice_bonus_odd_ply(pos, state, eval, search_ply) ==
    LET our_side == (search_ply % 2 = 1)
        total_material == get_material_count(pos)
        material_diff == get_material_diff(pos)
        starting_diff == state.starting_material_diff
    IN  IF ~our_side THEN VALUE_ZERO
        ELSE IF total_material <= 3500 THEN VALUE_ZERO
        ELSE IF material_diff < starting_diff - 100
             THEN IF eval > VALUE_DRAW + 300 THEN 80
                  ELSE IF eval > VALUE_DRAW THEN 40
                  ELSE VALUE_ZERO
             ELSE VALUE_ZERO

sacrifice_bonus(pos, state, eval, search_ply) ==
    LET our_side == (search_ply % 2 = 0)
        total_material == get_material_count(pos)
        material_diff == get_material_diff(pos)
        starting_diff == state.starting_material_diff
    IN  IF ~our_side THEN VALUE_ZERO
        ELSE IF total_material <= 3500 THEN VALUE_ZERO
        ELSE IF material_diff < starting_diff - 100
             THEN IF eval > VALUE_DRAW + 300 THEN 80
                  ELSE IF eval > VALUE_DRAW THEN 40
                  ELSE VALUE_ZERO
             ELSE VALUE_ZERO

\* material_scaling computes in single precision:
\*     float multiplier = (750.0f + total_material / 25.0f) / 1024.0f;
\*     return Value(eval * multiplier);
\* Every float operation is the exact result rounded to a 24-bit significand
\* (ties to even); the conversion to Value truncates toward zero.  The
\* operators below carry out exactly these roundings on integers.
RECURSIVE Pow2(_)
Pow2(n) == IF n = 0 THEN 1 ELSE 2 * Pow2(n - 1)

RECURSIVE FloorLog2(_)
FloorLog2(q) == IF q < 2 THEN 0 ELSE 1 + FloorLog2(q \div 2)

\* n / d rounded to the nearest integer, ties to the even one (n >= 0, d > 0).
RoundHalfEven(n, d) ==
    LET q == n \div d
        r == n % d
    IN  IF 2 * r > d \/ (2 * r = d /\ q % 2 = 1) THEN q + 1 ELSE q

\* The binary exponent of total_material / 25.0f: the least sh for which
\* total_material * 2^sh / 25 has a 24-bit significand.
RECURSIVE QuotientShift(_, _)
QuotientShift(total_material, sh) ==
    IF total_material * Pow2(sh) >= 25 * Pow2(23) THEN sh
    ELSE QuotientShift(total_material, sh + 1)

\* 750.0f + total_material / 25.0f as [m, k]: the float m / 2^k.  The sum
\* lies in [512, 1024) below 6850 material points, in [1024, 2048) below
\* 32450 and in [2048, 4096) above, which fixes k.
material_sum(total_material) ==
    LET k == IF total_material < 6850 THEN 14
             ELSE IF total_material < 32450 THEN 13 ELSE 12
        sh == QuotientShift(total_material, 0)
        quotient == RoundHalfEven(total_material * Pow2(sh), 25)
    IN  IF total_material = 0
        THEN [m |-> 750 * Pow2(k), k |-> k]
        ELSE [m |-> 750 * Pow2(k) + RoundHalfEven(quotient, Pow2(sh - k)),
              k |-> k]

\* |eval| * multiplier rounded to float and truncated.  The product is
\* q + f / 2^s exactly; it rounds up to q + 1 when f / 2^s is within half a
\* unit in the last place of q + 1.
scaled_magnitude(magnitude, total_material) ==
    LET sum == material_sum(total_material)
        s == sum.k + 10
        hi == sum.m \div 4096
        lo == sum.m % 4096
        c == magnitude * hi + ((magnitude * lo) \div 4096)
        r12 == (magnitude * lo) % 4096
        q == c \div Pow2(s - 12)
        f == (c % Pow2(s - 12)) * 4096 + r12
        x == s + FloorLog2(q) - 24
    IN  IF q >= 1 /\ x >= 0 /\ f >= Pow2(s) - Pow2(x) THEN q + 1 ELSE q

material_scaling(eval, pos) ==
    LET total_material == get_material_count(pos)
    IN  IF eval >= 0 THEN scaled_magnitude(eval, total_material)
        ELSE -scaled_magnitude(-eval, total_material)

\* Faulty variant of better_than_material: the threshold before it was
\* increased.
better_than_material_threshold_50(eval, pos) ==
    LET material_eval == get_material_diff(pos)
        threshold == 50
    IN  IF eval > 0 /\ eval > material_eval + threshold
        THEN 25 + TruncDiv(eval - material_eval - threshold, 10)
        ELSE IF eval < 0 /\ eval < material_eval - threshold
        THEN -(25 + TruncDiv(material_eval - eval - threshold, 10))
        ELSE VALUE_ZERO

better_than_material(eval, pos) ==
    LET material_eval == get_material_diff(pos)
        threshold == 150
    IN  IF eval > 0 /\ eval > material_eval + threshold
        THEN 25 + TruncDiv(eval - material_eval - threshold, 10)
        ELSE IF eval < 0 /\ eval < material_eval - threshold
        THEN -(25 + TruncDiv(material_eval - eval - threshold, 10))
        ELSE VALUE_ZERO

\* Faulty variant of fifty_move_decay: scaled against 100 halfmoves.
fifty_move_decay_hundred(eval, halfmove_clock) ==
    IF halfmove_clock > 0
    THEN TruncDiv(eval * (100 - halfmove_clock), 100)
    ELSE eval

\* Halfmove clock scaling of evaluate_patricia.
fifty_move_decay(eval, halfmove_clock) ==
    IF halfmove_clock > 0
    THEN TruncDiv(eval * (200 - halfmove_clock), 200)
    ELSE eval

\* The score pipeline of evaluate_patricia after the terminal guard.
\* Faulty variant of apply_modifiers: the sacrifice bonus is computed from
\* the score that already holds the first bonus.
apply_modifiers_chained(pos, state, raw, search_ply) ==
    LET bonus1 == better_than_material(raw, pos)
        bonus2 == sacrifice_bonus(pos, state, raw + bonus1, search_ply)
        summed == raw + bonus1 + bonus2
        scaled == material_scaling(summed, pos)
        decayed == fifty_move_decay(scaled, pos.rule50)
    IN  draw_contempt(pos, decayed)

apply_modifiers(pos, state, raw, search_ply) ==
    LET bonus1 == better_than_material(raw, pos)
        bonus2 == sacrifice_bonus(pos, state, raw, search_ply)
        summed == raw + bonus1 + bonus2
        scaled == material_scaling(summed, pos)
        decayed == fifty_move_decay(scaled, pos.rule50)
    IN  draw_contempt(pos, decayed)

\* Faulty variant of needs_phase_check: every node at depth >= 6 is checked.
needs_phase_check_every_node(state, depth) == depth >= 6

\* The condition under which evaluate_patricia re-detects the phase.
needs_phase_check(state, depth) ==
    depth >= 6 /\ depth # state.last_phase_check_depth

\* Faulty variant of switch_phase: the accumulator at the cursor is rebuilt
\* at every phase check.
switch_phase_always_rebuilds(pos, state, new_phase) ==
    [state EXCEPT
        !.phase = new_phase,
        !.accumulatorStack[state.current] =
            refresh_accumulator(pos, get_network(new_phase))]

\* Faulty variant of switch_phase: the accumulator of the old network is kept.
switch_phase_keeps_accumulator(pos, state, new_phase) ==
    IF new_phase # state.phase
    THEN [state EXCEPT !.phase = new_phase]
    ELSE state

\* The switch to new_phase inside the phase check: the phase is stored and,
\* when it differs from the current one, the accumulator at the cursor is
\* rebuilt with the network of the new phase.
switch_phase(pos, state, new_phase) ==
    IF new_phase # state.phase
    THEN [state EXCEPT
            !.phase = new_phase,
            !.accumulatorStack[state.current] =
                refresh_accumulator(pos, get_network(new_phase))]
    ELSE state

\* Faulty variant of phase_check: the depth of the check is not recorded.
phase_check_forgets_depth(pos, state, depth, prelim_eval) ==
    switch_phase(pos, state, detect_phase(prelim_eval, depth))

\* The phase check of evaluate_patricia, once its condition holds.
phase_check(pos, state, depth, prelim_eval) ==
    LET new_phase == detect_phase(prelim_eval, depth)
        switched == switch_phase(pos, state, new_phase)
    IN  [switched EXCEPT !.last_phase_check_depth = depth]

\* Faulty variant of terminal_guard: only winning scores are passed through.
terminal_guard_win_only(eval) == is_win(eval)

\* The guard of evaluate_patricia in front of the modifiers:
\* is_win(eval) || is_loss(eval).
terminal_guard(eval) == is_win(eval) \/ is_loss(eval)

\* The end of evaluate_patricia, from the guard on: the value returned for
\* the score eval of the active network.
modified_score(pos, state, eval, search_ply) ==
    IF terminal_guard(eval) THEN eval
    ELSE apply_modifiers(pos, state, eval, search_ply)

\* evaluate_patricia: the state it leaves and the value it returns, with
\* whether the phase check ran and the preliminary score it used.
evaluate_patricia(pos, state, depth, search_ply) ==
    LET white == (side_to_move(pos) = WHITE)
        check == needs_phase_check(state, depth)
        prelim_eval == networks_evaluate(state.accumulatorStack[state.current],
                                         state.phase, white)
        after == IF check THEN phase_check(pos, state, depth, prelim_eval) ELSE state
        eval == networks_evaluate(after.accumulatorStack[after.current], after.phase, white)
    IN  [state |-> after,
         checked |-> check,
         prelim |-> IF check THEN prelim_eval ELSE 0,
         raw |-> eval,
         value |-> modified_score(pos, after, eval, search_ply)]

(***************************************************************************)
(* The global network set and its lazy initialisation                      *)
(* (patricia_nets_embed.cpp).  Each of the three parameter records is      *)
(* "empty" before any load, "writing" while a memcpy into it is under way  *)
(* and "loaded" once a memcpy has completed and none is under way.         *)
(***************************************************************************)
Workers == 1 .. NumWorkers

Networks == {Middlegame, Endgame, Sacrifice}

VARIABLES
    st,                      \* the PatriciaState of the search line
    line,                    \* the positions from the root to the current node
    overflow,                \* a push has written past the last stack slot
    ev,                      \* the last call on the state, its inputs and results
    snap,                    \* cursor and accumulator at the cursor before the last push
    checkedDepths,           \* depths at which a phase check ran since init_patricia_state
    lastCheck,               \* depth of the latest phase check since init_patricia_state, or 0
    phaseChanged,            \* an evaluate call has changed the phase since init_patricia_state
    g_patricia_initialized,  \* the flag of patricia_nets_embed.cpp
    params,                  \* per network: "empty", "writing" or "loaded"
    writers,                 \* per network: the workers whose memcpy into it is under way
    wpc,                     \* per worker: where it is in get_patricia_networks()
    loads,                   \* how many times load_from_embedded has been entered
    tornRead,                \* a worker has read a record while it was being written
    lateWrite,               \* a record was written after a worker had obtained the set
    call,                    \* a function applied on its own: its arguments and its result
    mem,                     \* two PatriciaStates driven side by side, by name
    paths,                   \* per state of mem: the positions from its root to its node
    alone                    \* per state of mem: the state its own calls alone produce

evalVars == <<st, line, overflow, ev, snap, checkedDepths, lastCheck, phaseChanged>>
loadVars == <<g_patricia_initialized, params, writers, wpc, loads, tornRead, lateWrite>>
auxVars == <<call, mem, paths, alone>>
vars == <<st, line, overflow, ev, snap, checkedDepths, lastCheck, phaseChanged,
          g_patricia_initialized, params, writers, wpc, loads, tornRead, lateWrite,
          call, mem, paths, alone>>

Depths == {5, 6, 7}

\* No function has been applied.
NoFn == [fn |-> "none"]

\* The names of the two states of mem.
StateNames == {"A", "B"}

NoCall == [op |-> "none", depth |-> 0, ply |-> 0, checked |-> FALSE,
           prelim |-> 0, raw |-> 0, value |-> 0,
           old_phase |-> Middlegame, old_depth |-> 0,
           old_current |-> -1, old_stack |-> NewState.accumulatorStack,
           old_diff |-> 0,
           seen |-> FALSE, prev_check |-> 0]

NoSnap == [stage |-> "none", current |-> -1, acc |-> NewState.accumulatorStack[0]]

\* The program before any call: the search line, the network set and the
\* two states of mem as constructed.
InitProgram ==
    /\ st = NewState
    /\ line = <<>>
    /\ overflow = FALSE
    /\ ev = NoCall
    /\ snap = NoSnap
    /\ checkedDepths = {}
    /\ lastCheck = 0
    /\ phaseChanged = FALSE
    /\ g_patricia_initialized = FALSE
    /\ params = [n \in Networks |-> "empty"]
    /\ writers = [n \in Networks |-> {}]
    /\ wpc = [w \in Workers |-> "idle"]
    /\ loads = 0
    /\ tornRead = FALSE
    /\ lateWrite = FALSE
    /\ mem = [id \in StateNames |-> NewState]
    /\ paths = [id \in StateNames |-> <<>>]
    /\ alone = [id \in StateNames |-> NewState]

Init == InitProgram /\ call = NoFn

\* The position of the current node.
Pos == line[Len(line)]

\* get_patricia_networks() as called from the one thread that drives a
\* search line: the load runs to completion inside the call when the flag is
\* not yet set.
GetNetworksAlone ==
    /\ g_patricia_initialized' = TRUE
    /\ params' = IF g_patricia_initialized THEN params ELSE [n \in Networks |-> "loaded"]
    /\ loads' = IF g_patricia_initialized THEN loads ELSE loads + 1
    /\ UNCHANGED <<writers, wpc, tornRead, lateWrite>>

\* init_patricia_state(state, pos) at the root of a search line: on the
\* state as constructed, or again, from any node, for a new search of the
\* same root.
InitState(root) ==
    /\ ~overflow
    /\ IF line = <<>> THEN TRUE ELSE line[1] = root
    /\ GetNetworksAlone
    /\ st' = init_patricia_state(st, root)
    /\ line' = <<root>>
    /\ ev' = [NoCall EXCEPT !.op = "init",
                            !.old_phase = st.phase,
                            !.old_depth = st.last_phase_check_depth,
                            !.old_current = st.current,
                            !.old_stack = st.accumulatorStack,
                            !.old_diff = st.starting_material_diff]
    /\ checkedDepths' = {}
    /\ lastCheck' = 0
    /\ phaseChanged' = FALSE
    /\ snap' = NoSnap
    /\ UNCHANGED <<overflow, auxVars>>

\* The search makes a move: Position::do_move, then
\* push_patricia_accumulator(state, pos, dp) with the move's DirtyPiece.
Push(dp) ==
    /\ ~overflow
    /\ st.current >= 0
    /\ st.current + 1 < StackCapacity
    /\ GetNetworksAlone
    /\ st' = push_patricia_accumulator(st, dp)
    /\ line' = Append(line, do_move(Pos, dp))
    /\ snap' = [stage |-> "pushed", current |-> st.current,
                 acc |-> st.accumulatorStack[st.current]]
    /\ ev' = [NoCall EXCEPT !.op = "push",
                            !.old_phase = st.phase,
                            !.old_depth = st.last_phase_check_depth,
                            !.old_current = st.current,
                            !.old_stack = st.accumulatorStack,
                            !.old_diff = st.starting_material_diff]
    /\ UNCHANGED <<overflow, checkedDepths, lastCheck, phaseChanged, auxVars>>

\* push_patricia_accumulator with the cursor on the last slot: the function
\* has no check, state.current[1] is outside accumulatorStack and the copy
\* and the updates are written there.  The write lands on whatever lies behind
\* the array: either memory outside the state, or the members of the state
\* declared after the stack, which then hold accumulator lanes.  What the
\* program does from then on is undefined and is not followed.
PushPastEnd(dp) ==
    /\ ~overflow
    /\ st.current >= 0
    /\ st.current + 1 = StackCapacity
    /\ GetNetworksAlone
    /\ \E clobbered \in BOOLEAN :
          st' = IF clobbered
                THEN [st EXCEPT
                        !.current = st.current + 1,
                        !.last_phase_check_depth =
                            st.accumulatorStack[st.current].white[0],
                        !.starting_material_diff =
                            st.accumulatorStack[st.current].black[0]]
                ELSE [st EXCEPT !.current = st.current + 1]
    /\ overflow' = TRUE
    /\ line' = Append(line, do_move(Pos, dp))
    /\ snap' = [stage |-> "pushed", current |-> st.current,
                 acc |-> st.accumulatorStack[st.current]]
    /\ ev' = [NoCall EXCEPT !.op = "push",
                            !.old_phase = st.phase,
                            !.old_depth = st.last_phase_check_depth,
                            !.old_current = st.current,
                            !.old_stack = st.accumulatorStack,
                            !.old_diff = st.starting_material_diff]
    /\ UNCHANGED <<checkedDepths, lastCheck, phaseChanged, auxVars>>

\* The search takes the move back: Position::undo_move, then
\* pop_patricia_accumulator(state).  The search never pops the root.
Pop ==
    /\ ~overflow
    /\ st.current > 0
    /\ st' = pop_patricia_accumulator(st)
    /\ line' = SubSeq(line, 1, Len(line) - 1)
    /\ ev' = [NoCall EXCEPT !.op = "pop",
                            !.old_phase = st.phase,
                            !.old_depth = st.last_phase_check_depth,
                            !.old_current = st.current,
                            !.old_stack = st.accumulatorStack,
                            !.old_diff = st.starting_material_diff]
    /\ snap' = IF snap.stage = "pushed" THEN [snap EXCEPT !.stage = "popped"] ELSE NoSnap
    /\ UNCHANGED <<overflow, checkedDepths, lastCheck, phaseChanged, loadVars, auxVars>>

\* evaluate_patricia(pos, state, depth, search_ply) at the current node; the
\* search ply of a node is its distance from the root of the line.
Evaluate(depth) ==
    /\ ~overflow
    /\ st.current >= 0
    /\ GetNetworksAlone
    /\ \E r \in {evaluate_patricia(Pos, st, depth, Len(line) - 1)} :
           /\ st' = r.state
           /\ ev' = [op |-> "evaluate", depth |-> depth,
                     ply |-> Len(line) - 1, checked |-> r.checked, prelim |-> r.prelim,
                     raw |-> r.raw, value |-> r.value,
                     old_phase |-> st.phase,
                     old_depth |-> st.last_phase_check_depth,
                     old_current |-> st.current,
                     old_stack |-> st.accumulatorStack,
                     old_diff |-> st.starting_material_diff,
                     seen |-> depth \in checkedDepths,
                     prev_check |-> lastCheck]
           /\ checkedDepths' = IF r.checked THEN checkedDepths \cup {depth}
                               ELSE checkedDepths
           /\ lastCheck' = IF r.checked THEN depth ELSE lastCheck
           /\ phaseChanged' = (phaseChanged \/ r.state.phase # st.phase)
    /\ snap' = NoSnap
    /\ UNCHANGED <<line, overflow, auxVars>>

Next ==
    \/ \E root \in RootPositions : InitState(root)
    \/ st.current >= 0 /\ \E dp \in Moves(Pos) : Push(dp)
    \/ st.current >= 0 /\ \E dp \in Moves(Pos) : PushPastEnd(dp)
    \/ Pop
    \/ \E depth \in Depths : Evaluate(depth)

Spec == Init /\ [][Next]_vars

(***************************************************************************)
(* Several workers entering get_patricia_networks() for the first time.    *)
(* The flag is a plain bool and the function takes no lock, so every read  *)
(* and write of the flag and every memcpy is a step of its own that the    *)
(* other workers' steps may come between.                                  *)
(***************************************************************************)
LoadOrder == <<Middlegame, Endgame, Sacrifice>>

\* get_patricia_networks(): if (!g_patricia_initialized).
GetCheck(w) ==
    /\ wpc[w] = "idle"
    /\ wpc' = [wpc EXCEPT ![w] = IF g_patricia_initialized THEN "got" ELSE "init"]
    /\ UNCHANGED <<g_patricia_initialized, params, writers, loads, tornRead, lateWrite,
                   evalVars, auxVars>>

\* init_patricia_networks(): if (!g_patricia_initialized), then the call of
\* load_from_embedded.
InitCheck(w) ==
    /\ wpc[w] = "init"
    /\ wpc' = [wpc EXCEPT ![w] = IF g_patricia_initialized THEN "got" ELSE "copy1"]
    /\ loads' = IF g_patricia_initialized THEN loads ELSE loads + 1
    /\ UNCHANGED <<g_patricia_initialized, params, writers, tornRead, lateWrite, evalVars, auxVars>>

\* load_from_memory of the k-th network starts its memcpy.
CopyBegin(w, k) ==
    /\ wpc[w] = <<"copy1", "copy2", "copy3">>[k]
    /\ params' = [params EXCEPT ![LoadOrder[k]] = "writing"]
    /\ writers' = [writers EXCEPT ![LoadOrder[k]] = @ \cup {w}]
    /\ lateWrite' = (lateWrite \/ \E v \in Workers : wpc[v] = "got")
    /\ wpc' = [wpc EXCEPT ![w] = <<"copying1", "copying2", "copying3">>[k]]
    /\ UNCHANGED <<g_patricia_initialized, loads, tornRead, evalVars, auxVars>>

\* The memcpy of the k-th network completes.
CopyEnd(w, k) ==
    /\ wpc[w] = <<"copying1", "copying2", "copying3">>[k]
    /\ writers' = [writers EXCEPT ![LoadOrder[k]] = @ \ {w}]
    /\ params' = [params EXCEPT ![LoadOrder[k]] =
                    IF writers[LoadOrder[k]] = {w} THEN "loaded" ELSE "writing"]
    /\ wpc' = [wpc EXCEPT ![w] = <<"copy2", "copy3", "flag">>[k]]
    /\ UNCHANGED <<g_patricia_initialized, loads, tornRead, lateWrite, evalVars, auxVars>>

\* g_patricia_initialized = true, and the return through get_patricia_networks().
SetFlag(w) ==
    /\ wpc[w] = "flag"
    /\ g_patricia_initialized' = TRUE
    /\ wpc' = [wpc EXCEPT ![w] = "got"]
    /\ UNCHANGED <<params, writers, loads, tornRead, lateWrite, evalVars, auxVars>>

\* A worker that holds the network set reads the parameters of network n
\* (get_network(phase) followed by an evaluation or an accumulator update).
ReadParams(w, n) ==
    /\ wpc[w] = "got"
    /\ tornRead' = (tornRead \/ params[n] # "loaded")
    /\ UNCHANGED <<g_patricia_initialized, params, writers, wpc, loads, lateWrite, evalVars, auxVars>>

LoadNext ==
    \/ \E w \in Workers : GetCheck(w)
    \/ \E w \in Workers : InitCheck(w)
    \/ \E w \in Workers, k \in 1..3 : CopyBegin(w, k)
    \/ \E w \in Workers, k \in 1..3 : CopyEnd(w, k)
    \/ \E w \in Workers : SetFlag(w)
    \/ \E w \in Workers, n \in Networks : ReadParams(w, n)

LoadSpec == Init /\ [][LoadNext]_vars

(***************************************************************************)
(* Loading parameters from files (nnue_patricia.cpp).  A file is missing   *)
(* or holds len units of data; a parameter record is RecordSize units.     *)
(***************************************************************************)
RecordSize == 2

Files == {[exists |-> FALSE, len |-> 0]}
         \cup {[exists |-> TRUE, len |-> n] : n \in 0 .. (RecordSize + 1)}

\* std::istream::read(buffer, n): extracts n units or as many as the file
\* holds, and sets failbit (with eofbit) when fewer than n were extracted.
stream_read(file, n) ==
    [count |-> IF file.len < n THEN file.len ELSE n,
     fail |-> file.len < n]

\* Faulty variant of load: the state of the stream after the read is not
\* tested.
load_ignores_short_read(file) ==
    IF ~file.exists
    THEN [ok |-> FALSE, written |-> 0, diagnostic |-> "open"]
    ELSE [ok |-> TRUE, written |-> stream_read(file, RecordSize).count,
          diagnostic |-> "none"]

\* PatriciaNetwork::load: the value returned, how many units of params the
\* read has overwritten, and the diagnostic written to std::cerr.
load(file) ==
    IF ~file.exists
    THEN [ok |-> FALSE, written |-> 0, diagnostic |-> "open"]
    ELSE LET r == stream_read(file, RecordSize)
         IN  IF r.fail
             THEN [ok |-> FALSE, written |-> r.count, diagnostic |-> "read"]
             ELSE [ok |-> TRUE, written |-> r.count, diagnostic |-> "none"]

\* PatriciaNetworks::load_networks: each of the three loads is made, a
\* failing one clears success.
load_networks(firefly_path, rw3_path, allie_path) ==
    LET a == load(firefly_path)
        success1 == IF ~a.ok THEN FALSE ELSE TRUE
        b == load(rw3_path)
        success2 == IF ~b.ok THEN FALSE ELSE success1
        c == load(allie_path)
        success3 == IF ~c.ok THEN FALSE ELSE success2
    IN  [ok |-> success3, loads |-> <<a, b, c>>]

(***************************************************************************)
(* The functions of the evaluator applied on their own: call holds one     *)
(* application, first its arguments, then its arguments and its result.    *)
(***************************************************************************)
\* K e1, Q f1, Q g1, R h1 against Q e7, Q d8, K e8: 4100 of material, the
\* side with the rook 500 ahead.
Heavy(stm) ==
    [board |-> [EmptyBoard EXCEPT ![4] = make_piece(WHITE, KING),
                                  ![5] = make_piece(WHITE, QUEEN),
                                  ![6] = make_piece(WHITE, QUEEN),
                                  ![7] = make_piece(WHITE, ROOK),
                                  ![52] = make_piece(BLACK, QUEEN),
                                  ![59] = make_piece(BLACK, QUEEN),
                                  ![60] = make_piece(BLACK, KING)],
     stm |-> stm, rule50 |-> 0]

FnPositions == {Heavy(WHITE), Heavy(BLACK), RootA(0), RootB(0)}

Snapshots == {-700, 0, 700}
BonusScores == {-10, 0, 1, 300, 301}
Plies == 0 .. 3

MaterialScores ==
    {-2000, -651, -650, -649, -351, -350, -349, -151, -150, -149, -50, -1,
     0, 1, 50, 129, 130, 131, 149, 150, 151, 349, 350, 351, 429, 430, 431,
     649, 650, 651, 2000}

FixtureLanes == {-300, 100, 32767}
FixtureAccumulators ==
    [white : [Lanes -> FixtureLanes], black : [Lanes -> FixtureLanes]]

SacrificeArgs ==
    [pos : FnPositions, snapshot : Snapshots, eval : BonusScores,
     search_ply : Plies]
MaterialArgs == [eval : MaterialScores, pos : FnPositions]
FeatureArgs == [piece : Pieces, square : 0 .. 63]
EvaluateArgs ==
    [net : ZeroNets, accumulator : FixtureAccumulators,
     perspective_white : BOOLEAN]
\* Accumulators whose lanes lie at the ends of the int16 range or hold the
\* sums of a position.
UpdateAccumulators ==
    {[white |-> [i \in Lanes |-> a], black |-> [i \in Lanes |-> b]] :
        a, b \in {0, 32767, -32768}}
    \cup {refresh_accumulator(RootA(0), net) : net \in Networks}

\* Moves with one to four updates: a quiet move, a capture, a capture with
\* promotion (the moved piece is not added) and castling.
UpdateDeltas ==
    {StepDirty(RootA(0), 7, 5), StepDirty(RootB(0), 59, 5),
     StepDirty(RootA(0), 52, 59), CastleDirty}

Orders == {o \in [1 .. 4 -> 1 .. 4] : \A i, j \in 1 .. 4 : o[i] = o[j] => i = j}

\* K e1, Q f1, Q g1, Q h1 against Q e7, Q d8, K e8: 4500 of material, the
\* side with three queens 900 ahead.
Queens(stm) ==
    [board |-> [EmptyBoard EXCEPT ![4] = make_piece(WHITE, KING),
                                  ![5] = make_piece(WHITE, QUEEN),
                                  ![6] = make_piece(WHITE, QUEEN),
                                  ![7] = make_piece(WHITE, QUEEN),
                                  ![52] = make_piece(BLACK, QUEEN),
                                  ![59] = make_piece(BLACK, QUEEN),
                                  ![60] = make_piece(BLACK, KING)],
     stm |-> stm, rule50 |-> 0]

Clocks == {0, 1, 199}

PipelinePositions ==
    {[p EXCEPT !.rule50 = c] :
        p \in {Heavy(WHITE), Heavy(BLACK), Queens(WHITE), Queens(BLACK),
               RootA(0), RootB(0)},
        c \in Clocks}

\* Scores of the network: around 0 and the limits of the bonuses, large
\* ones, the last scores before the forced-win and forced-loss ranges and
\* the first ones inside them.
RawScores ==
    {-VALUE_TB_WIN_IN_MAX_PLY, -(VALUE_TB_WIN_IN_MAX_PLY - 1), -29000, -2000,
     -400, -1, 0, 1, 290, 400, 2000, 29000, VALUE_TB_WIN_IN_MAX_PLY - 1,
     VALUE_TB_WIN_IN_MAX_PLY}

ModifierArgs ==
    [pos : PipelinePositions, snapshot : {0, 700}, eval : RawScores,
     search_ply : {0, 1}]

UpdateArgs ==
    [acc : UpdateAccumulators, network : Networks, dp : UpdateDeltas,
     order : Orders]
LoadArgs == [file : Files]
LoadNetworksArgs == [firefly : Files, rw3 : Files, allie : Files]

Inputs(fn, argsets) == {[fn |-> fn, stage |-> "input", args |-> a] : a \in argsets}

Done(result) == [fn |-> call.fn, stage |-> "done", args |-> call.args,
                 result |-> result]

FnInit ==
    /\ InitProgram
    /\ \/ call \in Inputs("sacrifice_bonus", SacrificeArgs)
       \/ call \in Inputs("better_than_material", MaterialArgs)
       \/ call \in Inputs("feature_indices", FeatureArgs)
       \/ call \in Inputs("evaluate", EvaluateArgs)
       \/ call \in Inputs("push_updates", UpdateArgs)
       \/ call \in Inputs("modified_score", ModifierArgs)
       \/ call \in Inputs("load", LoadArgs)
       \/ call \in Inputs("load_networks", LoadNetworksArgs)

Pending(fn) == call.fn = fn /\ call.stage = "input"

ApplySacrificeBonus ==
    /\ Pending("sacrifice_bonus")
    /\ call' = Done(sacrifice_bonus(
                    call.args.pos,
                    [NewState EXCEPT !.starting_material_diff = call.args.snapshot],
                    call.args.eval, call.args.search_ply))
    /\ UNCHANGED <<evalVars, loadVars, mem, paths, alone>>

ApplyBetterThanMaterial ==
    /\ Pending("better_than_material")
    /\ call' = Done(better_than_material(call.args.eval, call.args.pos))
    /\ UNCHANGED <<evalVars, loadVars, mem, paths, alone>>

ApplyFeatureIndices ==
    /\ Pending("feature_indices")
    /\ call' = Done(feature_indices(call.args.piece, call.args.square))
    /\ UNCHANGED <<evalVars, loadVars, mem, paths, alone>>

ApplyNetworkEvaluate ==
    /\ Pending("evaluate")
    /\ call' = Done(network_evaluate(call.args.net, call.args.accumulator,
                                     call.args.perspective_white))
    /\ UNCHANGED <<evalVars, loadVars, mem, paths, alone>>

\* The updates of a push made in the order of the application.
ApplyPushUpdates ==
    /\ Pending("push_updates")
    /\ call' = Done(ApplyInOrder(call.args.acc, call.args.network,
                                 dirty_updates(call.args.dp), call.args.order, 4))
    /\ UNCHANGED <<evalVars, loadVars, mem, paths, alone>>

\* The end of evaluate_patricia applied to a score of the network.
ApplyModifiedScore ==
    /\ Pending("modified_score")
    /\ call' = Done(modified_score(
                    call.args.pos,
                    [NewState EXCEPT !.starting_material_diff = call.args.snapshot],
                    call.args.eval, call.args.search_ply))
    /\ UNCHANGED <<evalVars, loadVars, mem, paths, alone>>

ApplyLoad ==
    /\ Pending("load")
    /\ call' = Done(load(call.args.file))
    /\ UNCHANGED <<evalVars, loadVars, mem, paths, alone>>

ApplyLoadNetworks ==
    /\ Pending("load_networks")
    /\ call' = Done(load_networks(call.args.firefly, call.args.rw3,
                                  call.args.allie))
    /\ UNCHANGED <<evalVars, loadVars, mem, paths, alone>>

FnNext ==
    \/ ApplySacrificeBonus
    \/ ApplyBetterThanMaterial
    \/ ApplyFeatureIndices
    \/ ApplyNetworkEvaluate
    \/ ApplyPushUpdates
    \/ ApplyModifiedScore
    \/ ApplyLoad
    \/ ApplyLoadNetworks

FnSpec == FnInit /\ [][FnNext]_vars

(***************************************************************************)
(* Two search lines, each with a PatriciaState of its own (mem["A"] and    *)
(* mem["B"]), driven by interleaved calls.  paths holds the positions of   *)
(* each line; alone holds, for each line, the state its own calls produce  *)
(* when applied to a state nothing else touches; call is the last call.    *)
(***************************************************************************)
Other(id) == IF id = "A" THEN "B" ELSE "A"

PairRoot(id) == IF id = "A" THEN RootA(199) ELSE RootB(200)

PairDepths == {6}

NoPairCall == [fn |-> "none", on |-> "A", value |-> 0, value_alone |-> 0]

PairCall(fn, id) == [NoPairCall EXCEPT !.fn = fn, !.on = id]

\* The position of the current node of line id.
PairPos(id) == paths[id][Len(paths[id])]

\* The effect of a function taking PatriciaState& state, called with the
\* state of line id: that object is written, no other.
with_state(m, id, result) == [m EXCEPT ![id] = result]

PairInit == InitProgram /\ call = NoPairCall

PairInitState(id) ==
    /\ ~overflow
    /\ GetNetworksAlone
    /\ mem' = with_state(mem, id, init_patricia_state(mem[id], PairRoot(id)))
    /\ alone' = [alone EXCEPT ![id] = init_patricia_state(alone[id], PairRoot(id))]
    /\ paths' = [paths EXCEPT ![id] = <<PairRoot(id)>>]
    /\ call' = PairCall("init", id)
    /\ UNCHANGED evalVars

PairPush(id, dp) ==
    /\ ~overflow
    /\ mem[id].current + 1 < StackCapacity
    /\ GetNetworksAlone
    /\ mem' = with_state(mem, id, push_patricia_accumulator(mem[id], dp))
    /\ alone' = [alone EXCEPT ![id] = push_patricia_accumulator(alone[id], dp)]
    /\ paths' = [paths EXCEPT ![id] = Append(paths[id], do_move(PairPos(id), dp))]
    /\ call' = PairCall("push", id)
    /\ UNCHANGED evalVars

\* push_patricia_accumulator with the cursor of line id on the last slot:
\* the child accumulator is written behind the array.  It lands on memory
\* that belongs to no state, on the members of the same state declared
\* after the stack, or on the state of the other line when that object lies
\* behind this one (its first slot is taken as the place hit).  The run is
\* not followed further.
PairPushPastEnd(id, dp) ==
    /\ ~overflow
    /\ mem[id].current + 1 = StackCapacity
    /\ GetNetworksAlone
    /\ \E landing \in {"outside", "own", "other"} :
          LET parent == mem[id].accumulatorStack[mem[id].current]
              child == apply_dirty(parent, get_network(mem[id].phase), dp)
              moved == [mem EXCEPT ![id].current = mem[id].current + 1]
          IN  mem' = CASE landing = "outside" -> moved
                       [] landing = "own" ->
                            [moved EXCEPT
                               ![id].last_phase_check_depth = child.white[0],
                               ![id].starting_material_diff = child.black[0]]
                       [] landing = "other" ->
                            [moved EXCEPT ![Other(id)].accumulatorStack[0] = child]
    /\ alone' = [alone EXCEPT ![id].current = alone[id].current + 1]
    /\ overflow' = TRUE
    /\ paths' = [paths EXCEPT ![id] = Append(paths[id], do_move(PairPos(id), dp))]
    /\ call' = PairCall("push", id)
    /\ UNCHANGED <<st, line, ev, snap, checkedDepths, lastCheck, phaseChanged>>

PairPop(id) ==
    /\ ~overflow
    /\ mem[id].current > 0
    /\ mem' = with_state(mem, id, pop_patricia_accumulator(mem[id]))
    /\ alone' = [alone EXCEPT ![id] = pop_patricia_accumulator(alone[id])]
    /\ paths' = [paths EXCEPT ![id] = SubSeq(paths[id], 1, Len(paths[id]) - 1)]
    /\ call' = PairCall("pop", id)
    /\ UNCHANGED <<evalVars, loadVars>>

PairEvaluate(id, depth) ==
    /\ ~overflow
    /\ mem[id].current >= 0
    /\ GetNetworksAlone
    /\ \E r \in {evaluate_patricia(PairPos(id), mem[id], depth, Len(paths[id]) - 1)} :
       \E a \in {evaluate_patricia(PairPos(id), alone[id], depth, Len(paths[id]) - 1)} :
          /\ mem' = with_state(mem, id, r.state)
          /\ alone' = [alone EXCEPT ![id] = a.state]
          /\ call' = [PairCall("evaluate", id) EXCEPT !.value = r.value,
                                                     !.value_alone = a.value]
    /\ UNCHANGED <<evalVars, paths>>

PairNext ==
    \/ \E id \in StateNames : PairInitState(id)
    \/ \E id \in StateNames :
          mem[id].current >= 0 /\ \E dp \in Moves(PairPos(id)) : PairPush(id, dp)
    \/ \E id \in StateNames :
          mem[id].current >= 0 /\ \E dp \in Moves(PairPos(id)) : PairPushPastEnd(id, dp)
    \/ \E id \in StateNames : PairPop(id)
    \/ \E id \in StateNames : \E depth \in PairDepths : PairEvaluate(id, depth)

PairSpec == PairInit /\ [][PairNext]_vars
(***************************************************************************)
(* Properties.                                                             *)
(***************************************************************************)
\* The cursor points to a slot of the stack.
OnStack == ~overflow /\ st.current \in Slots

\* The accumulator the cursor points to.
CurrentAcc == st.accumulatorStack[st.current]

\* The phase the transition rule of the specification selects for a
\* preliminary score.
RulePhase(score) ==
    IF score < VALUE_DRAW - 100 THEN Endgame
    ELSE IF score > VALUE_DRAW + 300 THEN Sacrifice
    ELSE Middlegame

\* The draw-contempt offset for the side to move of pos.
ContemptOffset(pos) ==
    IF get_material_diff(pos) < 0 THEN 50
    ELSE IF get_material_diff(pos) > 0 THEN -50
    ELSE 0

\* C1: after init_state and any pushes, pops (never below the root) and
\* evaluate calls, the accumulator at the cursor is, for both perspectives,
\* the bias of the network of the CURRENT phase plus that network's weight
\* rows of the pieces on the board, i.e. the full rebuild under that network.
C1_AccumulatorOfCurrentPhase ==
    OnStack => CurrentAcc = refresh_accumulator(Pos, get_network(st.phase))

\* C2: as long as the phase has not changed since the root was rebuilt, the
\* accumulator maintained by push and pop is identical, element for element
\* and for both perspectives, to the one refresh builds from the position
\* reached, with the same network.
C2_RebuildEquivalence ==
    (OnStack /\ ~phaseChanged) =>
        CurrentAcc = refresh_accumulator(Pos, get_network(st.phase))

\* C2 witness: a castling push (two removals, two additions) from a rebuilt
\* root, the phase unchanged.
C2_Witness ==
    /\ OnStack /\ ~phaseChanged /\ ev.op = "push" /\ st.current > 0
    /\ Pos.board[6] = make_piece(WHITE, KING)
    /\ Pos.board[5] = make_piece(WHITE, ROOK)

\* C3: a push (within the capacity of the stack) immediately followed by a
\* pop leaves the cursor on the slot it was on and that slot's accumulator,
\* both perspective vectors, as it was before the push.
C3_PushPopRoundTrip ==
    snap.stage = "popped" =>
        /\ st.current = snap.current
        /\ CurrentAcc = snap.acc

\* C3 witness: a pop has directly followed a push that changed the
\* accumulator of the child.
C3_Witness ==
    /\ snap.stage = "popped"
    /\ ev.op = "pop"
    /\ st.accumulatorStack[st.current + 1] # snap.acc

\* C4: with several workers calling get_patricia_networks() concurrently
\* for the first time, the load runs once, no worker reads parameters that a
\* load is still writing, and nothing is written once a worker has obtained
\* the network set.
C4_InitialiseOnce == loads <= 1 /\ ~tornRead /\ ~lateWrite

\* C5: when the phase check of an evaluate call selects a phase other than
\* the current one, the call leaves the state in the new phase with the
\* accumulator at the cursor equal to the full rebuild of the position under
\* the network of the new phase.
C5_PhaseTransitionRebuild ==
    (ev.op = "evaluate" /\ ev.checked /\ RulePhase(ev.prelim) # ev.old_phase) =>
        /\ st.phase = RulePhase(ev.prelim)
        /\ CurrentAcc = refresh_accumulator(Pos, get_network(RulePhase(ev.prelim)))

\* C5 witness: a check in Middlegame below the cursor's root (after a push)
\* has switched to Endgame.
C5_Witness ==
    /\ ev.op = "evaluate" /\ ev.checked
    /\ ev.old_phase = Middlegame /\ ev.prelim < VALUE_DRAW - 100
    /\ st.phase = Endgame /\ st.current > 0

\* C6: after a phase check the phase is Endgame when the preliminary score
\* is below draw - 100, Sacrifice when it is above draw + 300 and Middlegame
\* otherwise, whatever the phase was before.
C6_PhaseTransitionRule ==
    (ev.op = "evaluate" /\ ev.checked) => st.phase = RulePhase(ev.prelim)

\* C6 witness: a check in Sacrifice with a score inside [draw-100, draw+300]
\* has returned to Middlegame.
C6_Witness ==
    /\ ev.op = "evaluate" /\ ev.checked
    /\ ev.old_phase = Sacrifice /\ st.phase = Middlegame

\* C7: an evaluate call runs the phase check exactly when depth >= 6 and
\* depth differs from the depth recorded at the last check (0 after
\* init_state); a check records depth; a call without check leaves the phase
\* and the recorded depth as they were.
C7_PhaseCheckGating ==
    /\ ev.op = "init" => st.last_phase_check_depth = 0
    /\ ev.op = "evaluate" =>
        /\ ev.checked <=> (ev.depth >= 6 /\ ev.depth # ev.old_depth)
        /\ ev.checked => st.last_phase_check_depth = ev.depth
        /\ ~ev.checked => /\ st.phase = ev.old_phase
                          /\ st.last_phase_check_depth = ev.old_depth

\* C7 witness: an evaluate call at a depth >= 6 that ran no check, in a
\* phase other than Middlegame.
C7_Witness ==
    /\ ev.op = "evaluate" /\ ~ev.checked /\ ev.depth >= 6
    /\ st.phase # Middlegame

\* C8 as stated: since init_state no depth is checked twice; an evaluate
\* call never runs the phase check at a depth at which a check already ran.
C8_OncePerDepthLevel ==
    (ev.op = "evaluate" /\ ev.checked) => ~ev.seen

\* C8 as amended: the phase check never runs twice in a row at one depth; a
\* check at depth d runs only when the latest check since init_state, if
\* any, was at another depth.
C8_NoRepeatAtLatestDepth ==
    (ev.op = "evaluate" /\ ev.checked) => (ev.depth >= 6 /\ ev.depth # ev.prev_check)

\* C8 witness: a depth that was checked before is checked again after a
\* check at another depth.
C8_Witness ==
    /\ ev.op = "evaluate" /\ ev.checked /\ ev.seen
    /\ ev.prev_check >= 6 /\ ev.prev_check # ev.depth

\* C9: a push with the cursor on the last slot is rejected and writes
\* nothing outside the stack; the cursor always indexes a slot of the stack.
C9_PushWithinCapacity ==
    /\ ~overflow
    /\ st.current >= 0 => st.current < StackCapacity

\* C10 as stated: with a halfmove clock of 200 and a raw score that is no
\* forced-win, forced-loss or tablebase score, evaluate returns 0.
C10_ClockTwoHundredIsZero ==
    (ev.op = "evaluate" /\ Pos.rule50 = 200 /\ ~is_win(ev.raw) /\ ~is_loss(ev.raw)) =>
        ev.value = 0

\* C10 as amended: with a halfmove clock of 200 and such a raw score,
\* evaluate returns the draw-contempt offset alone: +50 when the side to
\* move is behind in material, -50 when it is ahead, 0 when material is
\* level.
C10_ClockTwoHundredIsContempt ==
    (ev.op = "evaluate" /\ Pos.rule50 = 200 /\ ~is_win(ev.raw) /\ ~is_loss(ev.raw)) =>
        ev.value = ContemptOffset(Pos)

\* C10 witness: such a call with a raw score above draw + 300 for the side
\* that is behind in material.
C10_Witness ==
    /\ ev.op = "evaluate" /\ Pos.rule50 = 200
    /\ ~is_win(ev.raw) /\ ~is_loss(ev.raw)
    /\ ev.raw > 300 /\ get_material_diff(Pos) < 0 /\ ev.value = 50

\* The raw score of the network of the state's phase on the accumulator at
\* the cursor, from the side to move.
RawScore ==
    networks_evaluate(CurrentAcc, st.phase, side_to_move(Pos) = WHITE)

\* C11: when the score of the active network, taken after the phase check of
\* the call, is a forced-win, forced-loss or tablebase score, evaluate
\* returns exactly that score: no bonus, scaling, decay or contempt.
C11_TerminalGuard ==
    (ev.op = "evaluate" /\ (is_win(RawScore) \/ is_loss(RawScore))) =>
        ev.value = RawScore

\* C11 witness: a losing score is returned as it is by a call that has just
\* switched the phase, where the modifiers would have changed it.
C11_Witness ==
    /\ ev.op = "evaluate" /\ is_loss(RawScore) /\ ev.value = RawScore
    /\ ev.checked /\ st.phase # ev.old_phase
    /\ apply_modifiers(Pos, st, RawScore, ev.ply) # RawScore

\* C12: after init_state, whatever the state held, the phase is Middlegame,
\* the depth of the last phase check is 0, the material snapshot is the
\* material advantage of the side to move, the cursor is on slot 0 and slot 0
\* holds the full rebuild of the position under the Middlegame network.
C12_InitStatePostcondition ==
    ev.op = "init" =>
        /\ st.phase = Middlegame
        /\ st.last_phase_check_depth = 0
        /\ st.starting_material_diff = get_material_diff(Pos)
        /\ st.current = 0
        /\ st.accumulatorStack[0] = refresh_accumulator(Pos, Middlegame)
        /\ Len(line) = 1

\* C12 witness: init_state on a state that was in another phase, had checked
\* the phase at a depth >= 6, had its cursor below the root and held another
\* accumulator in slot 0.
C12_Witness ==
    /\ ev.op = "init"
    /\ ev.old_phase # Middlegame /\ ev.old_depth >= 6 /\ ev.old_current > 0
    /\ ev.old_stack[0] # st.accumulatorStack[0]

\* An application of fn that has returned.
Returned(fn) == call.fn = fn /\ call.stage = "done"

\* The state handed to sacrifice_bonus by an application.
SnapshotState == [NewState EXCEPT !.starting_material_diff = call.args.snapshot]

\* C13: at every odd search ply sacrifice_bonus returns 0, whatever the
\* position, the material snapshot and the score.
C13_SacrificeGating ==
    (Returned("sacrifice_bonus") /\ call.args.search_ply % 2 = 1)
        => call.result = 0

\* An odd-ply application returning 0 whose arguments earn the bonus of 80
\* one ply earlier.
C13_Witness ==
    /\ Returned("sacrifice_bonus")
    /\ call.args.search_ply % 2 = 1
    /\ call.result = 0
    /\ sacrifice_bonus(call.args.pos, SnapshotState, call.args.eval,
                       call.args.search_ply - 1) = 80

\* The pairs of a piece and a square other than the one of the application.
OtherFeatures ==
    {f \in Pieces \X (0 .. 63) : f # <<call.args.piece, call.args.square>>}

\* The white-perspective and black-perspective indices of the pieces of
\* colour c over all squares.
WhiteIndicesOf(c) ==
    {feature_indices(make_piece(c, pt), sq).white_idx : pt \in PAWN .. KING, sq \in 0 .. 63}
BlackIndicesOf(c) ==
    {feature_indices(make_piece(c, pt), sq).black_idx : pt \in PAWN .. KING, sq \in 0 .. 63}

\* C14: for every piece 1..6, 9..14 and every square 0..63 both indices lie
\* in [0, 768), no other piece-square pair has the same white index or the
\* same black index, and each colour fills one 384-wide half per perspective.
C14_FeatureBijection ==
    Returned("feature_indices") =>
        /\ call.result.white_idx \in 0 .. 767
        /\ call.result.black_idx \in 0 .. 767
        /\ \A f \in OtherFeatures :
              /\ feature_indices(f[1], f[2]).white_idx # call.result.white_idx
              /\ feature_indices(f[1], f[2]).black_idx # call.result.black_idx
        /\ (call.result.white_idx < 384) = (color_of(call.args.piece) = WHITE)
        /\ (call.result.black_idx < 384) = (color_of(call.args.piece) = BLACK)
        /\ WhiteIndicesOf(WHITE) = 0 .. 383
        /\ WhiteIndicesOf(BLACK) = 384 .. 767
        /\ BlackIndicesOf(BLACK) = 0 .. 383
        /\ BlackIndicesOf(WHITE) = 384 .. 767

\* The black king on h8: the last white-perspective index, and an index of
\* the lower half for Black's perspective.
C14_Witness ==
    /\ Returned("feature_indices")
    /\ call.args.piece = make_piece(BLACK, KING)
    /\ call.args.square = 63
    /\ call.result.white_idx = 767
    /\ call.result.black_idx = 327

\* The piece of the other colour and the same type.
OppositePiece(pc) == make_piece(Xor1(color_of(pc)), type_of(pc))

\* C15: the white-perspective index of the opposite-coloured piece of the
\* same type on the square XOR 56 equals the black-perspective index of the
\* piece on the square.
C15_PerspectiveSymmetry ==
    Returned("feature_indices") =>
        feature_indices(OppositePiece(call.args.piece),
                        Xor56(call.args.square)).white_idx
            = call.result.black_idx

\* A white pawn on e2 seen by Black: the index of a black pawn on e7 seen
\* by White, and not the pawn's own white-perspective index.
C15_Witness ==
    /\ Returned("feature_indices")
    /\ call.args.piece = make_piece(WHITE, PAWN)
    /\ call.args.square = 12
    /\ call.result.black_idx = 436
    /\ call.result.white_idx = 12
    /\ feature_indices(make_piece(BLACK, PAWN), 52).white_idx = 436

\* The output bias of the zero-weight network of an application.
FixtureB == FixtureBias[call.args.net - 2]

\* C16: a network whose feature weights, hidden bias and output weights are
\* all zero and whose output bias is b evaluates to (b * SCALE) / (QA * QB),
\* the quotient truncated toward zero, for every accumulator content, both
\* perspectives and both signs of b.
C16_QuantizationExactness ==
    Returned("evaluate") =>
        call.result =
            IF FixtureB >= 0
            THEN (FixtureB * PATRICIA_SCALE) \div (PATRICIA_QA * PATRICIA_QB)
            ELSE -(((-FixtureB) * PATRICIA_SCALE) \div (PATRICIA_QA * PATRICIA_QB))

\* A negative bias whose quotient is not whole, seen from Black's side over
\* an accumulator with lanes below zero and above QA: 0 by truncation,
\* where flooring gives -1.
C16_Witness ==
    /\ Returned("evaluate")
    /\ FixtureB = -40
    /\ ~call.args.perspective_white
    /\ call.args.accumulator.black = [i \in Lanes |-> 32767]
    /\ call.args.accumulator.white = [i \in Lanes |-> -300]
    /\ call.result = 0
    /\ ((FixtureB * PATRICIA_SCALE) \div (PATRICIA_QA * PATRICIA_QB)) = -1

\* The material advantage of the side to move in the position of an
\* application of better_than_material.
Advantage == get_material_diff(call.args.pos)

\* C19 as stated: the bonus is +(25 + (score - m - 150)/10) whenever
\* score > m + 150, -(25 + (m - 150 - score)/10) whenever score < m - 150,
\* and 0 otherwise, with no condition on the sign of the score.
C19_BonusWithoutSign ==
    Returned("better_than_material") =>
        call.result =
            IF call.args.eval > Advantage + 150
            THEN 25 + TruncDiv(call.args.eval - Advantage - 150, 10)
            ELSE IF call.args.eval < Advantage - 150
            THEN -(25 + TruncDiv(Advantage - 150 - call.args.eval, 10))
            ELSE 0

\* C19 amended: the bonus is +(25 + (score - m - 150)/10) whenever score > 0
\* and score > m + 150, -(25 + (m - 150 - score)/10) whenever score < 0 and
\* score < m - 150, and 0 otherwise.
C19_BonusWithSign ==
    Returned("better_than_material") =>
        /\ (call.args.eval > 0 /\ call.args.eval > Advantage + 150)
              => call.result = 25 + TruncDiv(call.args.eval - Advantage - 150, 10)
        /\ (call.args.eval < 0 /\ call.args.eval < Advantage - 150)
              => call.result = -(25 + TruncDiv(Advantage - 150 - call.args.eval, 10))
        /\ (~(call.args.eval > 0 /\ call.args.eval > Advantage + 150)
              /\ ~(call.args.eval < 0 /\ call.args.eval < Advantage - 150))
              => call.result = 0

\* A score of -50 for the side that is 500 behind: more than the threshold
\* above the material, not positive, and no bonus.
C19_Witness ==
    /\ Returned("better_than_material")
    /\ call.args.eval = -50
    /\ Advantage = -500
    /\ call.args.eval > Advantage + 150
    /\ call.result = 0

\* A file that can be opened and holds at least one parameter record.
Complete(file) == file.exists /\ file.len >= RecordSize

\* C20: load returns false when the file cannot be opened or holds less
\* than one parameter record, and true otherwise; load_networks returns
\* true if and only if all three loads returned true, each of them being
\* made; every application returns to its caller.
C20_LoadFailsSoftly ==
    /\ Returned("load") => call.result.ok = Complete(call.args.file)
    /\ Returned("load_networks") =>
          /\ call.result.loads[1].ok = Complete(call.args.firefly)
          /\ call.result.loads[2].ok = Complete(call.args.rw3)
          /\ call.result.loads[3].ok = Complete(call.args.allie)
          /\ call.result.ok = (\A i \in 1 .. 3 : call.result.loads[i].ok)

\* load_networks over a missing file, a file one unit short of a record
\* and a complete file: false, with the short file partly read and the
\* third load made and successful.
C20_Witness ==
    /\ Returned("load_networks")
    /\ ~call.args.firefly.exists
    /\ call.args.rw3.exists /\ call.args.rw3.len = RecordSize - 1
    /\ Complete(call.args.allie)
    /\ ~call.result.ok
    /\ call.result.loads[1].diagnostic = "open"
    /\ call.result.loads[2].diagnostic = "read"
    /\ call.result.loads[2].written = RecordSize - 1
    /\ call.result.loads[3].ok

\* The position of the parent of the current node.
ParentPos == line[Len(line) - 1]

\* The slot at the cursor is the incremental update, for some move leading
\* from the parent to the current node, of the slot the cursor was on.
IncrementalChild ==
    \E dp \in Moves(ParentPos) :
        /\ Pos = do_move(ParentPos, dp)
        /\ CurrentAcc = apply_dirty(ev.old_stack[ev.old_current],
                                    get_network(st.phase), dp)

\* C18: an evaluate call that makes no phase check, or whose check returns
\* the current phase, leaves the cursor and every slot unchanged; a pop
\* leaves every slot unchanged; a push within the capacity writes only the
\* slot it moves the cursor to, as the incremental update of its parent.
C18_RebuildOnlyOnPhaseChange ==
    /\ (ev.op = "evaluate" /\ st.phase = ev.old_phase) =>
          /\ st.accumulatorStack = ev.old_stack
          /\ st.current = ev.old_current
    /\ ev.op = "pop" =>
          /\ st.accumulatorStack = ev.old_stack
          /\ st.current = ev.old_current - 1
    /\ (ev.op = "push" /\ ~overflow) =>
          /\ st.current = ev.old_current + 1
          /\ \A i \in Slots \ {st.current} :
                st.accumulatorStack[i] = ev.old_stack[i]
          /\ IncrementalChild

\* An evaluate call whose phase check returns the current phase while the
\* slot at the cursor is not what a rebuild for that phase would produce:
\* the slot is left as it was.
C18_Witness ==
    /\ ev.op = "evaluate"
    /\ ev.checked
    /\ st.phase = ev.old_phase
    /\ CurrentAcc # refresh_accumulator(Pos, get_network(st.phase))
    /\ st.accumulatorStack = ev.old_stack

\* C17: every call on one state leaves the other state as the other line's
\* own calls made it (phase, last-check depth, material snapshot, cursor,
\* every slot), and a score returned to a line is the score its own calls
\* alone produce.
C17_Isolation ==
    /\ \A id \in StateNames \ {call.on} : mem[id] = alone[id]
    /\ call.fn = "evaluate" => call.value = call.value_alone

\* The same while every push has stayed inside the stack.
IsolationWithinCapacity == ~overflow => (mem = alone /\ C17_Isolation)

\* C21: the updates of a push, made in any order, leave the accumulator
\* that push_patricia_accumulator leaves with its own order, element for
\* element and for both perspectives, under 16-bit wrap-around arithmetic.
C21_OrderIndependence ==
    Returned("push_updates") =>
        call.result = apply_dirty(call.args.acc, call.args.network, call.args.dp)

\* Castling (two removals, two additions) made in the reverse order on an
\* accumulator at the top of the int16 range, where a lane wraps after the
\* first update made.
C21_Witness ==
    /\ Returned("push_updates")
    /\ call.args.dp = CastleDirty
    /\ call.args.order = <<4, 3, 2, 1>>
    /\ call.args.acc.white = [i \in Lanes |-> 32767]
    /\ \E i \in Lanes :
          ApplyInOrder(call.args.acc, call.args.network,
                       dirty_updates(call.args.dp), call.args.order, 1).white[i] < 0
    /\ call.result = apply_dirty(call.args.acc, call.args.network, call.args.dp)

\* The score given to an application of modified_score is no forced-win,
\* forced-loss or tablebase score.
PlainScore ==
    /\ Returned("modified_score")
    /\ call.args.eval < VALUE_TB_WIN_IN_MAX_PLY
    /\ call.args.eval > -VALUE_TB_WIN_IN_MAX_PLY

\* Both bonuses taken from the raw score and added to it.
RawWithBonuses ==
    call.args.eval
        + better_than_material(call.args.eval, call.args.pos)
        + sacrifice_bonus(call.args.pos, SnapshotState, call.args.eval,
                          call.args.search_ply)

\* x * (200 - clock) / 200, truncated, when the clock is above 0.
DecayOf(x, clock) ==
    IF clock > 0
    THEN IF x * (200 - clock) >= 0
         THEN (x * (200 - clock)) \div 200
         ELSE -((-(x * (200 - clock))) \div 200)
    ELSE x

\* C22: for a raw score r that is no forced-win, forced-loss or tablebase
\* score the value returned is contempt + decay(scale(r + bonus1(r) +
\* bonus2(r))): both bonuses come from r, the material scaling is applied
\* to the sum, the decay x * (200 - clock) / 200 follows it when the clock
\* is above 0, and the draw-contempt offset is added last.
C22_PipelineOrder ==
    PlainScore =>
        call.result =
            ContemptOffset(call.args.pos)
            + DecayOf(material_scaling(RawWithBonuses, call.args.pos),
                      call.args.pos.rule50)

\* A raw score of 290 for the side 500 behind, at an even ply, with the
\* clock at 199: the first bonus lifts the sum above 300 while the sacrifice
\* bonus stays the 40 of the raw score, and the offset of 50 is added to the
\* decayed value.
C22_Witness ==
    /\ PlainScore
    /\ call.args.eval = 290
    /\ call.args.pos = [Heavy(BLACK) EXCEPT !.rule50 = 199]
    /\ call.args.snapshot = 0
    /\ call.args.search_ply = 0
    /\ better_than_material(290, call.args.pos) = 89
    /\ RawWithBonuses = 290 + 89 + 40
    /\ call.result = 50 + (material_scaling(419, call.args.pos) \div 200)

\* C24: a raw score that is no forced-win, forced-loss or tablebase score
\* is never turned into one by the bonuses, the material scaling, the
\* fifty-move decay and the draw contempt.
C24_NoManufacturedTerminal ==
    PlainScore => (~is_win(call.result) /\ ~is_loss(call.result))

\* The members of the state beside the stack and the cursor are as they
\* were before the last call.
MembersKept ==
    /\ st.phase = ev.old_phase
    /\ st.last_phase_check_depth = ev.old_depth
    /\ st.starting_material_diff = ev.old_diff

\* All slots of the stack but slot i are as they were before the last call.
SlotsKeptBut(i) ==
    \A j \in Slots \ {i} : st.accumulatorStack[j] = ev.old_stack[j]

\* C23: a pop moves the cursor down by one and changes nothing else; a push
\* moves it up by one, writes only the slot above the old cursor and leaves
\* the phase, the last-check depth, the material snapshot and every other
\* slot as they were; the cursor equals the number of pushes minus the
\* number of pops since init_state.
C23_PushPopFrame ==
    /\ ev.op = "pop" =>
          /\ st.current = ev.old_current - 1
          /\ MembersKept
          /\ st.accumulatorStack = ev.old_stack
    /\ ev.op = "push" =>
          /\ st.current = ev.old_current + 1
          /\ MembersKept
          /\ SlotsKeptBut(ev.old_current + 1)
    /\ st.current >= 0 => st.current = Len(line) - 1

\* The same while every push has stayed inside the stack.
FrameWithinCapacity == ~overflow => C23_PushPopFrame

====
